---- MODULE Spec2Model ----
(***************************************************************************)
(* BaseAvatar (src/components/views/avatars/BaseAvatar.tsx): the image     *)
(* source resolution of an avatar widget.  The widget is a React function  *)
(* component; its state is the two useState cells of useImageUrl           *)
(* (imageUrls, urlsIndex), the props of the last render, the dependency    *)
(* array of the useEffect, the pending passive effects, the queue of state *)
(* updates that have been dispatched and not rendered yet, and the element *)
(* produced by the last render.                                            *)
(*                                                                         *)
(* Encoding of JavaScript values:                                          *)
(*   - a string is a TLA+ string; undefined is the string Undefined;       *)
(*   - an optional array is a tuple of length <= 1: << >> is undefined,    *)
(*     <<s>> is the array s;                                               *)
(*   - array indices are those of the source (0-based); At0 reads them.    *)
(***************************************************************************)
EXTENDS Integers, Sequences, FiniteSets, TLC

\* ------------------------------------------------------------------ bounds
MaxLen == 2        \* longest urls prop the environment passes
MaxIndex == 3      \* cap on the number of undelivered + delivered failures
MaxPending == 2    \* cap on the state updates dispatched inside one batch
MaxArgLen == 3     \* longest urls argument of a direct calculateUrls call

\* ------------------------------------------------------------- JS values
Undefined == "undefined"
NoArray == << >>
Arr(s) == <<s>>

\* URL strings of the props; the url prop may also be the empty string.
\* A direct call of calculateUrls also gets "" and a third url in urls.
Urls == {"A", "B"}
ArgUrls == {"", "A", "B", "C"}

SeqsUpTo(S, n) == UNION {[1..k -> S] : k \in 0..n}

UrlProps == {Undefined, ""} \cup Urls
UrlsProps == {NoArray} \cup {Arr(s) : s \in SeqsUpTo(Urls, MaxLen)}

\* sync states of the client ("sync" event: syncState, prevState); the
\* previous state of the first notification is null.
Null == "null"
SyncStates == {"ERROR", "SYNCING", "RECONNECTING"}
PrevStates == SyncStates \cup {Null}

VARIABLES
    mounted,                \* the widget is in the tree
    url, urls,              \* props of the last render
    defaultToInitialLetter, \* prop of the last render
    lowBandwidth,           \* SettingsStore.getValue("lowBandwidth")
    imageUrls, urlsIndex,   \* the two useState cells of useImageUrl
    deps,                   \* dependency array of the last committed useEffect
    effectPending,          \* passive effects of the last commit not run yet
    queue,                  \* setIndex updates dispatched and not rendered
    batching,               \* inside a batchedUpdates scope
    subscribed,             \* onClientSync is a listener of cli "sync"
    rendered,               \* element returned by the last render
    fails,                  \* history: onError calls since the last setIndex(0)
    builtFlag,              \* history: the setting read by the last calculateUrls
    failed,                 \* history: srcs whose error event was handled
                            \* since the last setIndex(0)
    last,                   \* history: the last event handled
    args, result,           \* a direct call of a pure function and its value
    quiet                   \* the environment has stopped changing the inputs
                            \* and reconnecting

vars == <<mounted, url, urls, defaultToInitialLetter, lowBandwidth, imageUrls,
          urlsIndex, deps, effectPending, queue, batching,
          subscribed, rendered, fails, builtFlag, failed, last, args, result,
          quiet>>

\* ------------------------------------------------------------ calculateUrls
\* JavaScript truthiness of an optional string
Truthy(s) == s /= Undefined /\ s /= ""

\* urls || []
OrEmpty(us) == IF us = NoArray THEN << >> ELSE us[1]

RECURSIVE DedupFrom(_, _)
DedupFrom(s, seen) ==
    IF s = << >> THEN << >>
    ELSE IF Head(s) \in seen THEN DedupFrom(Tail(s), seen)
         ELSE <<Head(s)>> \o DedupFrom(Tail(s), seen \cup {Head(s)})

\* variant: the array is returned without deduplication
ArrayFromSetKeepsAll(s) == s

\* Array.from(new Set(s)): insertion order, first occurrence kept
ArrayFromSet(s) == DedupFrom(s, {})

\* variant: the setting guards only the url, the fallbacks are always taken
calculateUrlsFallbacksAlways(u, us, lb) ==
    LET _urls == IF ~lb /\ Truthy(u) THEN <<u>> \o OrEmpty(us) ELSE OrEmpty(us)
    IN ArrayFromSet(_urls)

\* variant: the url is put after the fallbacks
calculateUrlsPrimaryLast(u, us, lb) ==
    LET _urls == IF ~lb
                 THEN IF Truthy(u) THEN OrEmpty(us) \o <<u>> ELSE OrEmpty(us)
                 ELSE << >>
    IN ArrayFromSet(_urls)

calculateUrls(u, us, lb) ==
    LET _urls == IF ~lb
                 THEN IF Truthy(u) THEN <<u>> \o OrEmpty(us) ELSE OrEmpty(us)
                 ELSE << >>
    IN ArrayFromSet(_urls)

\* s[i] with the source's 0-based index; undefined outside the array
At0(s, i) == IF i >= 0 /\ i < Len(s) THEN s[i + 1] ELSE Undefined

\* JSON.stringify(urls): undefined for undefined, else the text of the array
RECURSIVE JoinQuoted(_)
JoinQuoted(s) ==
    IF s = << >> THEN << >>
    ELSE IF Len(s) = 1 THEN <<"\"", Head(s), "\"">>
         ELSE <<"\"", Head(s), "\"", ",">> \o JoinQuoted(Tail(s))

JSONstringify(us) ==
    IF us = NoArray THEN << >> ELSE <<"[">> \o JoinQuoted(us[1]) \o <<"]">>

\* variant: the dependency array holds the length of urls, not its text
EffectDepsLengthOnly(u, us) ==
    <<u, IF us = NoArray THEN << >> ELSE [i \in 1..Len(us[1]) |-> "x"]>>

\* dependency array of the useEffect
EffectDeps(u, us) == <<u, JSONstringify(us)>>

\* variant: the dependency array holds the urls array itself, which is a new
\* array at every render of the parent
DepsChangedAlways(new, old) == TRUE

\* the useEffect runs again when a dependency differs from the last one
DepsChanged(new, old) == new /= old

\* ------------------------------------------------------------- useImageUrl
\* the two updates setIndex is called with
Inc == "i => i + 1"
Zero == "0"

\* onError: setIndex(i => i + 1)
\* variant: the error handler sets the index back to 0
onErrorUpdateResets == Zero

onErrorUpdate == Inc

\* variant: onError calls setIndex(urlsIndex + 1) with the urlsIndex of the
\* first render, which useCallback(..., []) closes over
ApplyUpdateStaleIndex(u, i) == IF u = Inc THEN 0 + 1 ELSE 0

\* variant: onError skips a candidate
ApplyUpdateSkipsOne(u, i) == IF u = Inc THEN i + 2 ELSE 0

\* one state update applied to the index by the next render
ApplyUpdate(u, i) == IF u = Inc THEN i + 1 ELSE 0

\* variant: the update dispatched last is applied first
RECURSIVE ApplyUpdatesLastFirst(_, _)
ApplyUpdatesLastFirst(q, i) ==
    IF q = << >> THEN i
    ELSE ApplyUpdate(Head(q), ApplyUpdatesLastFirst(Tail(q), i))

\* the updates of a useState cell are applied in the order of dispatch
RECURSIVE ApplyUpdates(_, _)
ApplyUpdates(q, i) ==
    IF q = << >> THEN i ELSE ApplyUpdates(Tail(q), ApplyUpdate(Head(q), i))

\* variant: only a transition out of the error state counts
ReconnectedAfterErrorOnly(syncState, prevState) ==
    syncState /= "ERROR" /\ prevState = "ERROR"

\* variant: every notification of a state that is not the error state counts
ReconnectedWheneverNoError(syncState, prevState) ==
    syncState /= "ERROR"

\* onClientSync: const reconnected = ...
Reconnected(syncState, prevState) ==
    syncState /= "ERROR" /\ prevState /= syncState

\* const imageUrl = imageUrls[urlsIndex]
imageUrl == At0(imageUrls, urlsIndex)

\* --------------------------------------------------------------- BaseAvatar
NoElement == [kind |-> "none", src |-> Undefined, onError |-> FALSE]

\* variant: the placeholder is returned whenever no url is resolved
BaseAvatarAlwaysPlaceholder(iu, dtil) ==
    IF ~Truthy(iu)
    THEN [kind |-> "span", src |-> Undefined, onError |-> FALSE]
    ELSE [kind |-> "img", src |-> iu, onError |-> TRUE]

\* variant: the placeholder element gets the error handler too
BaseAvatarPlaceholderWired(iu, dtil) ==
    IF ~Truthy(iu) /\ dtil
    THEN [kind |-> "span", src |-> Undefined, onError |-> TRUE]
    ELSE [kind |-> "img", src |-> iu, onError |-> TRUE]

\* the element BaseAvatar returns for the resolved url
BaseAvatar(iu, dtil) ==
    IF ~Truthy(iu) /\ dtil
    THEN [kind |-> "span", src |-> Undefined, onError |-> FALSE]
    ELSE [kind |-> "img", src |-> iu, onError |-> TRUE]

\* history record of an event: its name, the arguments of a "sync"
\* notification, the index before a "sync", "effect", "end", "unmount" or
\* "props", the updates that the end of a batch rendered, whether a "props"
\* event passed the url and urls of the render before
Event(o) == [op |-> o, syncState |-> Null, prevState |-> Null, from |-> 0,
             batch |-> << >>, same |-> FALSE]
NoEvent == Event("none")
NoArgs == <<Undefined, NoArray, FALSE>>

\* ----------------------------------------------------------------- render
\* One render pass of the mounted widget with props (u, us, d), after the
\* updates q were dispatched.  React runs the passive effects of the last
\* commit before it renders: the pending useEffect calls
\* setUrls(calculateUrls(url, urls)) and setIndex(0) with the props of the
\* render that scheduled it, and useEventEmitter adds the listener.  The
\* useEffect is scheduled again when its dependency array changed.
\* variant: the list is computed again by every render
NextUrlsEveryRender(pending) == calculateUrls(url, urls, lowBandwidth)

\* imageUrls of the next render: the useState cell, set by the useEffect
NextUrls(pending) ==
    IF pending THEN calculateUrls(url, urls, lowBandwidth) ELSE imageUrls

\* useEventEmitter(cli, "sync", onClientSync): its effect adds the listener
\* with the effects of the first commit, its cleanup removes it
AddListener(pending, sub) == sub \/ pending

\* variant: the cleanup keeps the listener
RemoveListenerLeaks(sub) == sub

RemoveListener(sub) == FALSE

Render(q, u, us, d) ==
    LET q2 == IF effectPending THEN Append(q, Zero) ELSE q
        list == NextUrls(effectPending)
        idx == ApplyUpdates(q2, urlsIndex)
    IN /\ imageUrls' = list
       /\ urlsIndex' = idx
       /\ queue' = << >>
       /\ subscribed' = AddListener(effectPending, subscribed)
       /\ builtFlag' = IF effectPending THEN lowBandwidth ELSE builtFlag
       /\ url' = u
       /\ urls' = us
       /\ defaultToInitialLetter' = d
       /\ deps' = EffectDeps(u, us)
       /\ effectPending' = DepsChanged(EffectDeps(u, us), deps)
       /\ rendered' = BaseAvatar(At0(list, idx), d)

\* a handler dispatched the updates q: inside a batch they wait for the end
\* of the batch, outside they are rendered at once
Dispatch(q) ==
    IF batching
    THEN /\ queue' = q
         /\ UNCHANGED <<imageUrls, urlsIndex, subscribed, url, urls, builtFlag,
                        defaultToInitialLetter, deps, effectPending, rendered>>
    ELSE Render(q, url, urls, defaultToInitialLetter)

\* ---------------------------------------------------------------- actions
Init ==
    /\ mounted = FALSE
    /\ url = Undefined
    /\ urls = NoArray
    /\ defaultToInitialLetter = TRUE
    /\ lowBandwidth \in BOOLEAN
    /\ imageUrls = << >>
    /\ urlsIndex = 0
    /\ deps = EffectDeps(Undefined, NoArray)
    /\ effectPending = FALSE
    /\ queue = << >>
    /\ batching = FALSE
    /\ subscribed = FALSE
    /\ rendered = NoElement
    /\ fails = 0
    /\ builtFlag = FALSE
    /\ failed = {}
    /\ last = NoEvent
    /\ args = NoArgs
    /\ result = << >>
    /\ quiet = FALSE

\* first render: useState(calculateUrls(url, urls)), useState(0); every
\* effect of the first commit is pending
Mount(u, us, d) ==
    /\ ~mounted
    /\ mounted' = TRUE
    /\ url' = u
    /\ urls' = us
    /\ defaultToInitialLetter' = d
    /\ imageUrls' = calculateUrls(u, us, lowBandwidth)
    /\ urlsIndex' = 0
    /\ deps' = EffectDeps(u, us)
    /\ effectPending' = TRUE
    /\ queue' = << >>
    /\ subscribed' = FALSE
    /\ rendered' = BaseAvatar(At0(calculateUrls(u, us, lowBandwidth), 0), d)
    /\ fails' = 0
    /\ failed' = {}
    /\ builtFlag' = lowBandwidth
    /\ last' = Event("mount")
    /\ UNCHANGED <<lowBandwidth, batching, args, result, quiet>>

\* the scheduler runs the pending passive effects and renders their updates
RunEffects ==
    /\ mounted /\ effectPending /\ ~batching
    /\ Render(queue, url, urls, defaultToInitialLetter)
    /\ fails' = 0
    /\ failed' = {}
    /\ last' = [Event("effect") EXCEPT !.from = urlsIndex]
    /\ UNCHANGED <<mounted, lowBandwidth, batching, args, result, quiet>>

\* the parent renders the widget again: with the same props (a new array of
\* the same strings is the same value here) or with one prop changed
SetProps(u, us, d) ==
    /\ mounted /\ ~batching
    /\ \/ u = url /\ us = urls
       \/ u = url /\ d = defaultToInitialLetter
       \/ us = urls /\ d = defaultToInitialLetter
    /\ Render(queue, u, us, d)
    /\ fails' = IF effectPending THEN 0 ELSE fails
    /\ failed' = IF effectPending THEN {} ELSE failed
    /\ last' = [Event("props") EXCEPT !.from = urlsIndex,
                                      !.same = (u = url /\ us = urls)]
    /\ UNCHANGED <<mounted, lowBandwidth, batching, args, result, quiet>>

\* the setting changes; the widget does not watch it
SetLowBandwidth(b) ==
    /\ b /= lowBandwidth
    /\ lowBandwidth' = b
    /\ last' = Event("setting")
    /\ UNCHANGED <<mounted, url, urls, defaultToInitialLetter, imageUrls,
                   urlsIndex, deps, effectPending, queue, batching,
                   subscribed, rendered, fails, builtFlag, failed, args,
                   result, quiet>>

\* number of increments the queue holds
RECURSIVE Incs(_)
Incs(q) == IF q = << >> THEN 0
           ELSE (IF Head(q) = Inc THEN 1 ELSE 0) + Incs(Tail(q))

\* the error event of the rendered image element calls onError; the element
\* fires it at most once before it is rendered again
OnError ==
    /\ mounted /\ rendered.onError
    /\ urlsIndex + Incs(queue) < MaxIndex /\ fails < MaxIndex
    /\ batching => Len(queue) < MaxPending /\ Incs(queue) = 0
    /\ Dispatch(Append(queue, onErrorUpdate))
    /\ fails' = IF ~batching /\ effectPending THEN 0 ELSE fails + 1
    /\ failed' = IF ~batching /\ effectPending THEN {}
                 ELSE failed \cup {rendered.src}
    /\ last' = Event("error")
    /\ UNCHANGED <<mounted, lowBandwidth, batching, args, result, quiet>>

\* the client emits "sync"; onClientSync runs when it is a listener
OnClientSync(syncState, prevState) ==
    /\ last' = [Event("sync") EXCEPT !.syncState = syncState,
                                     !.prevState = prevState,
                                     !.from = urlsIndex]
    /\ IF subscribed /\ Reconnected(syncState, prevState)
       THEN /\ batching => Len(queue) < MaxPending
            /\ Dispatch(Append(queue, Zero))
            /\ fails' = 0
            /\ failed' = {}
       ELSE UNCHANGED <<imageUrls, urlsIndex, subscribed, url, urls,
                        defaultToInitialLetter, deps, effectPending, rendered,
                        queue, fails, builtFlag, failed>>
    /\ UNCHANGED <<mounted, lowBandwidth, batching, args, result, quiet>>

\* batchedUpdates(fn): the updates dispatched by fn are rendered together
BeginBatch ==
    /\ mounted /\ ~batching
    /\ batching' = TRUE
    /\ last' = Event("begin")
    /\ UNCHANGED <<mounted, url, urls, defaultToInitialLetter, lowBandwidth,
                   imageUrls, urlsIndex, deps, effectPending, queue,
                   subscribed, rendered, fails, builtFlag, failed, args,
                   result, quiet>>

EndBatch ==
    /\ mounted /\ batching
    /\ batching' = FALSE
    /\ IF queue = << >>
       THEN UNCHANGED <<imageUrls, urlsIndex, subscribed, url, urls,
                        defaultToInitialLetter, deps, effectPending, rendered,
                        queue, fails, builtFlag, failed>>
       ELSE /\ Render(queue, url, urls, defaultToInitialLetter)
            /\ fails' = IF effectPending THEN 0 ELSE fails
            /\ failed' = IF effectPending THEN {} ELSE failed
    /\ last' = [Event("end") EXCEPT !.from = urlsIndex, !.batch = queue]
    /\ UNCHANGED <<mounted, lowBandwidth, args, result, quiet>>

\* the widget leaves the tree: its state is discarded and the cleanup of
\* useEventEmitter removes the listener
Unmount ==
    /\ mounted /\ ~batching
    /\ mounted' = FALSE
    /\ url' = Undefined
    /\ urls' = NoArray
    /\ defaultToInitialLetter' = TRUE
    /\ imageUrls' = << >>
    /\ urlsIndex' = 0
    /\ deps' = EffectDeps(Undefined, NoArray)
    /\ effectPending' = FALSE
    /\ queue' = << >>
    /\ subscribed' = RemoveListener(subscribed)
    /\ rendered' = NoElement
    /\ fails' = 0
    /\ failed' = {}
    /\ builtFlag' = FALSE
    /\ last' = [Event("unmount") EXCEPT !.from = urlsIndex]
    /\ UNCHANGED <<lowBandwidth, batching, args, result, quiet>>

Next ==
    \/ \E u \in UrlProps, us \in UrlsProps, d \in BOOLEAN : Mount(u, us, d)
    \/ RunEffects
    \/ \E u \in UrlProps, us \in UrlsProps, d \in BOOLEAN : SetProps(u, us, d)
    \/ \E b \in BOOLEAN : SetLowBandwidth(b)
    \/ OnError
    \/ \E s \in SyncStates, p \in PrevStates : OnClientSync(s, p)
    \/ BeginBatch
    \/ EndBatch
    \/ Unmount

Spec == Init /\ [][Next]_vars

\* ------------------------------------------------- calculateUrls on its own
ArgUrlProps == {Undefined} \cup ArgUrls
ArgUrlsProps == {NoArray} \cup {Arr(s) : s \in SeqsUpTo(ArgUrls, MaxArgLen)}

\* a call calculateUrls(u, us); the flag is the setting at the time of the call
CalculateUrlsCall(u, us) ==
    /\ ~mounted
    /\ args' = <<u, us, lowBandwidth>>
    /\ result' = calculateUrls(u, us, lowBandwidth)
    /\ last' = Event("call")
    /\ UNCHANGED <<mounted, url, urls, defaultToInitialLetter, lowBandwidth,
                   imageUrls, urlsIndex, deps, effectPending, queue, batching,
                   subscribed, rendered, fails, builtFlag, failed, quiet>>

NextBuild ==
    \/ \E u \in ArgUrlProps, us \in ArgUrlsProps : CalculateUrlsCall(u, us)
    \/ \E b \in BOOLEAN : SetLowBandwidth(b)

SpecBuild == Init /\ [][NextBuild]_vars

\* ---------------------------------------------------- BaseAvatar on its own
\* candidate lists: arrays of strings without duplicates
CandidateLists == {s \in SeqsUpTo(ArgUrls, MaxArgLen) : ArrayFromSet(s) = s}

\* one render of BaseAvatar when useImageUrl holds (list, i)
BaseAvatarCall(list, i, d) ==
    /\ ~mounted
    /\ args' = <<list, i, d>>
    /\ result' = BaseAvatar(At0(list, i), d)
    /\ last' = Event("render")
    /\ UNCHANGED <<mounted, url, urls, defaultToInitialLetter, lowBandwidth,
                   imageUrls, urlsIndex, deps, effectPending, queue, batching,
                   subscribed, rendered, fails, builtFlag, failed, quiet>>

NextRender ==
    \E list \in CandidateLists, i \in 0..(MaxArgLen + 1), d \in BOOLEAN :
        BaseAvatarCall(list, i, d)

SpecRender == Init /\ [][NextRender]_vars

\* ------------------------------------------- a widget that is left alone
\* from here on the widget stays mounted, url and urls keep their values and
\* no notification is a reconnection
GoQuiet ==
    /\ mounted /\ ~quiet
    /\ quiet' = TRUE
    /\ last' = Event("quiet")
    /\ UNCHANGED <<mounted, url, urls, defaultToInitialLetter, lowBandwidth,
                   imageUrls, urlsIndex, deps, effectPending, queue, batching,
                   subscribed, rendered, fails, builtFlag, failed, args,
                   result>>

NextFair ==
    \/ ~quiet /\ \E u \in UrlProps, us \in UrlsProps, d \in BOOLEAN :
                    Mount(u, us, d)
    \/ RunEffects
    \/ \E u \in UrlProps, us \in UrlsProps, d \in BOOLEAN :
          /\ quiet => (u = url /\ us = urls)
          /\ SetProps(u, us, d)
    \/ OnError
    \/ \E s \in SyncStates, p \in PrevStates :
          /\ quiet => (s = "ERROR" \/ s = p)
          /\ OnClientSync(s, p)
    \/ ~quiet /\ Unmount
    \/ GoQuiet

\* every load of a rendered image fails and the error event is delivered;
\* the scheduler runs pending passive effects.  Every update is rendered on
\* its own here (no batchedUpdates) and the setting keeps its value.
SpecFair ==
    /\ Init /\ [][NextFair]_vars
    /\ WF_vars(OnError) /\ WF_vars(RunEffects)

TypeOK ==
    /\ mounted \in BOOLEAN
    /\ urlsIndex \in 0..MaxIndex
    /\ Len(queue) <= MaxPending

\* ================================================================= claims
\* the sequence [u if present] followed by the fallbacks
PrimaryThenFallbacks(present, u, us) ==
    (IF present THEN <<u>> ELSE << >>) \o OrEmpty(us)

Elems(s) == {s[i] : i \in 1..Len(s)}
FirstIndex(s, x) == CHOOSE i \in 1..Len(s) :
                        s[i] = x /\ \A j \in 1..(i - 1) : s[j] /= x

\* r is s with every element kept only at its first occurrence
IsFirstOccurrencesOf(r, s) ==
    /\ \A i, j \in 1..Len(r) : i /= j => r[i] /= r[j]
    /\ Elems(r) = Elems(s)
    /\ \A i, j \in 1..Len(r) :
          i < j => FirstIndex(s, r[i]) < FirstIndex(s, r[j])

Called == last.op = "call"

\* C7 as stated: with bandwidth saving off, calculateUrls(url, urls) is
\* [url if it is not undefined] followed by urls, every URL kept only at its
\* first occurrence.
C7_PresentMeansDefined ==
    Called /\ ~args[3] =>
        IsFirstOccurrencesOf(result,
            PrimaryThenFallbacks(args[1] /= Undefined, args[1], args[2]))

\* C7 amended: with bandwidth saving off, calculateUrls(url, urls) is
\* [url if it is a non-empty string] followed by urls, every URL kept only at
\* its first occurrence; build("A", ["B","A","C"]) = ["A","B","C"] and
\* build(undefined, ["A","A"]) = ["A"].
C7_PrimaryThenFallbacksDeduplicated ==
    /\ Called /\ ~args[3] =>
          IsFirstOccurrencesOf(result,
              PrimaryThenFallbacks(Truthy(args[1]), args[1], args[2]))
    /\ Called /\ args = <<"A", Arr(<<"B", "A", "C">>), FALSE>> =>
          result = <<"A", "B", "C">>
    /\ Called /\ args = <<Undefined, Arr(<<"A", "A">>), FALSE>> =>
          result = <<"A">>

C7_Witness ==
    /\ Called
    /\ args = <<"A", Arr(<<"B", "A", "C">>), FALSE>>
    /\ result = <<"A", "B", "C">>

\* C8: with bandwidth saving on, calculateUrls returns the empty sequence for
\* every url and every urls.
C8_EmptyWhenLowBandwidth ==
    Called /\ args[3] => result = << >>

C8_Witness ==
    /\ Called
    /\ args = <<"A", Arr(<<"B", "C">>), TRUE>>
    /\ result = << >>

\* ------------------------------------------------------------ the cursor
\* the index the next render has when no further update is dispatched
PendingIndex == ApplyUpdates(queue, urlsIndex)

\* a notification (current, previous) the spec calls a reconnection
IsReconnection(e) ==
    e.op = "sync" /\ e.syncState /= "ERROR" /\ e.syncState /= e.prevState

\* C1: after k load failures since the list was built or the cursor was last
\* reset, with every dispatched update rendered, the cursor is k and the
\* resolved URL is list[k] when k < N and undefined when k >= N; the list
\* is the one built from the props.  A failure delivered when the list is
\* exhausted only moves the cursor on.
C1_ResolvedAfterKFailures ==
    mounted =>
        /\ PendingIndex = fails
        /\ queue = << >> =>
              /\ urlsIndex = fails
              /\ fails < Len(imageUrls) => imageUrl = imageUrls[fails + 1]
              /\ fails >= Len(imageUrls) => imageUrl = Undefined
              /\ rendered.kind = "img" => rendered.src = imageUrl

\* list ["A","B"]: the third failure in a row, resolved undefined
C1_Witness ==
    /\ mounted /\ last.op = "error" /\ queue = << >>
    /\ imageUrls = <<"A", "B">>
    /\ fails = 3 /\ urlsIndex = 3
    /\ imageUrl = Undefined

\* C2: a notification (current, previous) with current not "ERROR" and
\* current different from previous, delivered to the listening widget, sets
\* the cursor to 0 whatever it was (inside a batch: the cursor of the render
\* that ends the batch), so that the resolved URL is list[0] when the list is
\* not empty.
C2_ReconnectionResetsCursor ==
    mounted /\ subscribed /\ IsReconnection(last) =>
        /\ PendingIndex = 0
        /\ fails = 0
        /\ ~batching =>
              /\ urlsIndex = 0
              /\ imageUrls /= << >> => imageUrl = imageUrls[1]
              /\ rendered = BaseAvatar(At0(imageUrls, 0), defaultToInitialLetter)

\* list ["A","B"] exhausted by two failures, then SYNCING after ERROR
C2_Witness ==
    /\ mounted /\ subscribed /\ ~batching
    /\ last.op = "sync" /\ last.syncState = "SYNCING"
    /\ last.prevState = "ERROR"
    /\ last.from = 2
    /\ imageUrls = <<"A", "B">> /\ urlsIndex = 0 /\ rendered.src = "A"

\* C3: a notification whose current state equals the previous state, or
\* whose current state is "ERROR", changes neither the cursor nor the list
\* nor the updates waiting for a render.
C3_OtherNotificationsKeepCursor ==
    [][(last'.op = "sync"
          /\ (last'.syncState = last'.prevState \/ last'.syncState = "ERROR"))
       => /\ urlsIndex' = urlsIndex
          /\ imageUrls' = imageUrls
          /\ queue' = queue
          /\ rendered' = rendered]_vars

\* an ERROR notification delivered to an exhausted widget: still exhausted
C3_Witness ==
    /\ mounted /\ subscribed
    /\ last.op = "sync" /\ last.syncState = "ERROR"
    /\ last.prevState = "SYNCING"
    /\ last.from = 2 /\ urlsIndex = 2 /\ imageUrls = <<"A", "B">>

\* C3 companion witness: an unchanged non-error state does not reset either
C3_WitnessSameState ==
    /\ mounted /\ subscribed
    /\ last.op = "sync" /\ last.syncState = "SYNCING"
    /\ last.prevState = "SYNCING"
    /\ urlsIndex = 1 /\ imageUrls = <<"A", "B">>

\* ----------------------------------------------------------- input change
\* C4: when url or urls changes (contents or order) the useEffect is
\* scheduled, and the render that runs it holds the list built from the
\* changed props and the cursor 0, whatever the cursor was, so that the
\* resolved URL is element 0 of the new list.
C4_InputChangeRebuildsAndResets ==
    [][/\ (mounted /\ mounted' /\ (url' /= url \/ urls' /= urls))
            => effectPending'
       /\ (mounted' /\ effectPending /\ ~effectPending')
            => /\ imageUrls' = calculateUrls(url', urls', lowBandwidth)
               /\ urlsIndex' = 0
               /\ imageUrl' = At0(calculateUrls(url', urls', lowBandwidth), 0)]_vars

\* urls reordered to ["B","A"] while the cursor was at 2: list rebuilt, cursor 0
C4_Witness ==
    /\ mounted /\ ~effectPending
    /\ last.op = "effect" /\ last.from = 2
    /\ url = Undefined /\ urls = Arr(<<"B", "A">>)
    /\ imageUrls = <<"B", "A">> /\ urlsIndex = 0 /\ imageUrl = "B"

\* C5 as stated: the list held by the widget is the one built from url,
\* urls and the current value of the bandwidth-saving flag.
C5_ListFollowsFlag ==
    mounted /\ ~effectPending =>
        imageUrls = calculateUrls(url, urls, lowBandwidth)

\* C5 amended: a change of the flag alone changes neither the list nor the
\* cursor nor the rendered element; the list held by the widget is the one
\* built from url, urls and the flag as it was read at mount or by the last
\* run of the useEffect.
C5_ListFollowsFlagReadAtBuild ==
    [][/\ last'.op = "setting"
            => /\ imageUrls' = imageUrls
               /\ urlsIndex' = urlsIndex
               /\ rendered' = rendered
               /\ effectPending' = effectPending
       /\ (mounted' /\ ~effectPending')
            => imageUrls' = calculateUrls(url', urls', builtFlag')
       /\ (mounted' /\ effectPending /\ ~effectPending')
            => builtFlag' = lowBandwidth]_vars

\* the flag was switched on after the list ["A","B"] was built: still held
C5_Witness ==
    /\ mounted /\ ~effectPending
    /\ last.op = "setting" /\ lowBandwidth /\ ~builtFlag
    /\ imageUrls = <<"A", "B">> /\ rendered.src = "A"

\* C6 as stated: 0 <= cursor <= N in every reachable state.
C6_CursorWithinList ==
    mounted => 0 <= urlsIndex /\ urlsIndex <= Len(imageUrls)

\* C6 amended: 0 <= cursor in every reachable state; a load failure that is
\* rendered on its own while cursor < N moves the cursor by one, to at most
\* N (or the pending useEffect resets it to 0); the cursor is not capped at
\* N, and whenever cursor >= N no URL is resolved and none is rendered.
C6_CursorNonNegativeAndAbsentPastEnd ==
    [][/\ urlsIndex' >= 0
       /\ (last'.op = "error" /\ ~batching /\ urlsIndex < Len(imageUrls))
            => /\ urlsIndex' <= Len(imageUrls')
               /\ urlsIndex' \in {0, urlsIndex + 1}
       /\ (mounted' /\ urlsIndex' >= Len(imageUrls'))
            => imageUrl' = Undefined /\ rendered'.src = Undefined]_vars

\* list ["A"], defaultToInitialLetter false: the cursor went to 2
C6_Witness ==
    /\ mounted /\ ~defaultToInitialLetter
    /\ last.op = "error"
    /\ imageUrls = <<"A">> /\ urlsIndex = 2
    /\ imageUrl = Undefined /\ rendered.kind = "img"

\* ------------------------------------------------- failure then reconnection
\* the last two updates of q are a failure and then a reset
EndsWithFailureThenReset(q) ==
    /\ Len(q) >= 2
    /\ q[Len(q) - 1] = Inc
    /\ q[Len(q)] = Zero

\* C9: when a load failure and then a reconnection are handled with no
\* other event between them, the cursor ends at 0: when each is rendered at
\* once, and when both updates are rendered together at the end of a batch.
C9_ReconnectionAfterFailureWins ==
    [][/\ (last.op = "error" /\ IsReconnection(last') /\ subscribed /\ mounted)
            => /\ PendingIndex' = 0
               /\ ~batching => urlsIndex' = 0
       /\ (batching /\ ~batching' /\ mounted'
             /\ EndsWithFailureThenReset(queue))
            => urlsIndex' = 0]_vars

\* a batch that held a failure and then a reconnection was rendered: the
\* cursor was 1 and is 0
C9_Witness ==
    /\ mounted /\ ~batching
    /\ last.op = "end" /\ last.batch = <<Inc, Zero>> /\ last.from = 1
    /\ urlsIndex = 0 /\ imageUrls = <<"A", "B">> /\ rendered.src = "A"

\* ------------------------------------------------------------ subscription
\* C10: the listener of the client's "sync" event is held while the widget
\* is mounted (from the effects of its first commit on) and never while it
\* is unmounted; a notification emitted while the widget is unmounted
\* changes nothing of the widget.
C10_ListenerHeldWhileMounted ==
    [][/\ ~mounted' => ~subscribed'
       /\ (mounted' /\ ~subscribed')
            => (effectPending' /\ urlsIndex' = 0)
       /\ (mounted /\ mounted' /\ subscribed) => subscribed'
       /\ (~mounted /\ last'.op = "sync")
            => UNCHANGED <<mounted, imageUrls, urlsIndex, queue, rendered,
                           subscribed, effectPending>>]_vars

\* a widget that had moved its cursor to 2 (so its effects had run and it
\* was listening) was unmounted: the listener is gone
C10_Witness ==
    /\ ~mounted /\ ~subscribed
    /\ last.op = "unmount" /\ last.from = 2
    /\ rendered = NoElement

\* ------------------------------------------------------------ render layer
Rendered == last.op = "render"
Placeholder == [kind |-> "span", src |-> Undefined, onError |-> FALSE]
ImageOf(u) == [kind |-> "img", src |-> u, onError |-> TRUE]

\* C11 as stated: the placeholder is produced if and only if
\* defaultToInitialLetter is true and the cursor is at or past the end of
\* the list; whenever cursor < N the element is an image of list[cursor]
\* with the error handler.
C11_PlaceholderIffPastEnd ==
    Rendered =>
        /\ (result.kind = "span") <=> (args[3] /\ args[2] >= Len(args[1]))
        /\ args[2] < Len(args[1]) => result = ImageOf(args[1][args[2] + 1])

\* C11 amended: the placeholder is produced if and only if
\* defaultToInitialLetter is true and the resolved url is absent (cursor at
\* or past the end) or the empty string; whenever list[cursor] is a
\* non-empty string the element is an image of list[cursor] with the error
\* handler; when defaultToInitialLetter is false the element is always an
\* image with the error handler, without a source when nothing is resolved.
C11_PlaceholderIffNothingToShow ==
    Rendered =>
        LET list == args[1]
            i == args[2]
            nothing == i >= Len(list) \/ list[i + 1] = ""
        IN /\ (result = Placeholder) <=> (args[3] /\ nothing)
           /\ ~nothing => result = ImageOf(list[i + 1])
           /\ ~args[3] => /\ result.kind = "img" /\ result.onError
                          /\ i >= Len(list) => result.src = Undefined

\* list ["A","B"], cursor 2, defaultToInitialLetter false: an image element
\* without a source, no placeholder
C11_Witness ==
    /\ Rendered
    /\ args = <<(<<"A", "B">>), 2, FALSE>>
    /\ result = ImageOf(Undefined)

\* ------------------------------------------------------ the candidate list
\* list is [u if non-empty] followed by us, each URL at its first occurrence
IsOrderedCandidatesOf(list, u, us) ==
    IsFirstOccurrencesOf(list, PrimaryThenFallbacks(Truthy(u), u, us))

\* C12: in every reachable state the list holds no URL twice; whenever the
\* list is replaced by a non-empty list, the new list is the primary URL
\* first, then the fallbacks in the order given, of the props the build
\* read; and when no useEffect is pending a non-empty list is in that order
\* for the current props.
C12_ListDuplicateFreeAndOrdered ==
    [][/\ \A i, j \in 1..Len(imageUrls') : i /= j => imageUrls'[i] /= imageUrls'[j]
       /\ (imageUrls' /= imageUrls /\ imageUrls' /= << >>)
            => IF mounted THEN IsOrderedCandidatesOf(imageUrls', url, urls)
               ELSE IsOrderedCandidatesOf(imageUrls', url', urls')
       /\ (mounted' /\ ~effectPending' /\ imageUrls' /= << >>)
            => IsOrderedCandidatesOf(imageUrls', url', urls')]_vars

\* url "A" with urls ["B","A"] gave ["A","B"]
C12_Witness ==
    /\ mounted /\ ~effectPending
    /\ url = "A" /\ urls = Arr(<<"B", "A">>)
    /\ imageUrls = <<"A", "B">>

\* ------------------------------------------------------------- the frame
\* the step ends a batch in which the index was set to 0
EndsBatchWithReset ==
    batching /\ ~batching' /\ \E k \in 1..Len(queue) : queue[k] = Zero

\* C13: a load failure, with no useEffect of an input change pending, moves
\* the cursor on by exactly 1 (inside a batch: the cursor of the render that
\* ends the batch) and leaves the list unchanged; a reconnection in that
\* situation leaves the list and the props unchanged; and the cursor only
\* ever decreases in a step that is a reset: the useEffect of an input
\* change, a reconnection or the unmount, which leave it at 0, or the end of
\* a batch holding a reset, which leaves it at no more than the failures of
\* that batch.
C13_FailureAdvancesByOne ==
    [][/\ (last'.op = "error" /\ ~effectPending)
            => /\ imageUrls' = imageUrls
               /\ PendingIndex' = PendingIndex + 1
               /\ ~batching => urlsIndex' = urlsIndex + 1
               /\ batching => urlsIndex' = urlsIndex
       /\ (IsReconnection(last') /\ mounted /\ ~effectPending)
            => /\ imageUrls' = imageUrls
               /\ <<url', urls', defaultToInitialLetter', lowBandwidth'>>
                    = <<url, urls, defaultToInitialLetter, lowBandwidth>>
               /\ rendered'.kind = "img" => rendered'.src = At0(imageUrls, urlsIndex')
       /\ urlsIndex' < urlsIndex
            => \/ effectPending /\ urlsIndex' = 0
               \/ IsReconnection(last') /\ subscribed /\ urlsIndex' = 0
               \/ EndsBatchWithReset /\ urlsIndex' <= Incs(queue)
               \/ ~mounted' /\ urlsIndex' = 0]_vars

\* the first candidate of ["A","B"] failed: the second one is rendered
C13_Witness ==
    /\ mounted /\ ~batching /\ ~effectPending
    /\ last.op = "error" /\ fails = 1
    /\ imageUrls = <<"A", "B">> /\ urlsIndex = 1 /\ rendered.src = "B"

\* C14: a props update in which url is unchanged and urls is an array of
\* the same strings in the same order (or still undefined) is no input
\* change: no useEffect is scheduled by it and, with no earlier input change
\* pending, the cursor, the list and the rendered URL are unchanged, so the
\* retry sequence is not restarted.  (Arrays are values here: urls equal to
\* the previous urls stands for the same array and for a new one alike.)
C14_SameContentsIsNoInputChange ==
    [][(last'.op = "props" /\ last'.same)
       => /\ ~effectPending'
          /\ deps' = deps
          /\ ~effectPending
               => /\ urlsIndex' = urlsIndex
                  /\ imageUrls' = imageUrls
                  /\ fails' = fails
                  /\ rendered'.kind = "img"
                       => rendered'.src = rendered.src]_vars

\* the widget showing the second candidate of ["A","B"] got equal props
C14_Witness ==
    /\ mounted /\ ~effectPending /\ ~batching
    /\ last.op = "props" /\ last.same /\ last.from = 1
    /\ urls /= NoArray
    /\ imageUrls = <<"A", "B">> /\ urlsIndex = 1 /\ rendered.src = "B"

\* ------------------------------------------------------------- exhaustion
\* no candidate is left and no reset waits for a render: nothing is
\* resolved, no URL is rendered, and the placeholder is rendered when
\* defaultToInitialLetter allows it
Exhausted ==
    /\ mounted /\ ~effectPending
    /\ urlsIndex >= Len(imageUrls)
    /\ PendingIndex >= Len(imageUrls)
    /\ imageUrl = Undefined
    /\ rendered.src = Undefined
    /\ defaultToInitialLetter => rendered.kind = "span"

C16_RenderedUrlIsOfCurrentProps ==
    (mounted /\ rendered.kind = "img" /\ rendered.src /= Undefined)
        => rendered.src \in Elems(calculateUrls(url, urls, FALSE))

\* C17: in every reachable state in which every dispatched update has been
\* rendered, each candidate at an index below the cursor has had a failed
\* load since the last reset (mount, input change or reconnection): an
\* error event of an image rendered before a reset never moves the cursor of
\* the attempt started by that reset.
C17_PassedCandidatesHaveFailed ==
    (mounted /\ queue = << >>) =>
        \A i \in 1..Len(imageUrls) : i <= urlsIndex => imageUrls[i] \in failed

\* ------------------------------------------------------- the placeholder
\* C18: while the placeholder is rendered it carries no error handler, so the
\* step taken from that state is never a load failure, and the cursor and the
\* list change from that state only through an input change (its pending
\* useEffect), a reconnection (at once or at the end of its batch) or the
\* unmount.
C18_PlaceholderTakesNoFailure ==
    [][(mounted /\ rendered.kind = "span")
       => /\ ~rendered.onError
          /\ last'.op /= "error"
          /\ Incs(queue') = 0
          /\ <<urlsIndex', imageUrls'>> /= <<urlsIndex, imageUrls>>
               => \/ effectPending
                  \/ IsReconnection(last') /\ subscribed
                  \/ EndsBatchWithReset
                  \/ ~mounted']_vars

\* both candidates of ["A","B"] failed and the placeholder is rendered
C18_Witness ==
    /\ mounted /\ ~effectPending /\ ~batching
    /\ last.op = "error" /\ defaultToInitialLetter
    /\ rendered = Placeholder
    /\ imageUrls = <<"A", "B">> /\ urlsIndex = 2

====
